---- MODULE Spec2Model ----
(***************************************************************************)
(* A model of optvis.py: visualize_feature and the helpers it calls.       *)
(*                                                                         *)
(* Tensors are records [shape, val]: the shape is the exact shape the code *)
(* produces, the contents are abstracted to one integer level.  The        *)
(* numerical routines are integer stand-ins for the formulas of the source *)
(* (none is the identity); the control flow, the hook, the optimizer's     *)
(* parameter list, the random-number stream and the display calls are      *)
(* translated statement by statement.                                      *)
(* Python's None is the empty sequence <<>>, a value x is <<x>>.           *)
(***************************************************************************)
EXTENDS Integers, Sequences, FiniteSets, TLC

(* ------------------------------ bounds --------------------------------- *)
MaxSteps == 3
MaxFrames == 2
MaxSize == 3
MaxJitter == 3
MaxCalls == 2
\* the size calls are made with where the size is not what is examined
CallSize == 2
\* channels of the hooked layer's output
NumCh == 1
\* states of the random-number generator
RngMod == 4

(* ------------------------- program constants --------------------------- *)
\* grad_clip=1, the default of visualize_feature
GradClip == 1
\* integer stand-ins (pixel values in eighths): mean 0.485 ~ 4/8, std 0.229 ~ 2/8
ImagenetMean == 4
ImagenetStd == 2
\* torch.clamp(..., max=1, min=0), in eighths
ClampMax == 8
ClampMin == 0
\* gain of the normalised colour-correlation matrix on the level
ColorGain == 2

None == <<>>
Some(x) == <<x>>
IsNone(o) == o = <<>>
Val(o) == o[1]

Sign(x) == IF x > 0 THEN 1 ELSE IF x < 0 THEN -1 ELSE 0
Abs(x) == IF x < 0 THEN -x ELSE x
Last(s) == s[Len(s)]

(* --------------------------- random numbers ---------------------------- *)
\* np.random: a deterministic generator; every draw advances its state
NextRng(s) == (5 * s + 3) % RngMod
\* np.random.rand(): the draw made from state s, a number in [0, 1), in halves
Rand(s) == IF 2 * NextRng(s) >= RngMod THEN 1 ELSE 0

RECURSIVE RngAfter(_, _)
RngAfter(s, n) == IF n = 0 THEN s ELSE RngAfter(NextRng(s), n - 1)

\* the n draws made from state s, in order
Draws(s, n) == [k \in 1..n |-> Rand(RngAfter(s, k - 1))]

(* ------------------------ Fourier parameterisation --------------------- *)
FftShape(size) == <<1, 3, size, (size \div 2) + 1, 2>>
RgbShape(size) == <<1, 3, size, size>>

\* init_fft_buf: one np.random.normal call fills the buffer
init_fft_buf(size, s) ==
    [shape |-> FftShape(size), val |-> (NextRng(s) % 3) - 1]

\* get_fft_scale: the scale of the lowest frequency, 1 / (1/(size*d)) = size*d,
\* with d = .5**.5 taken as one level unit
get_fft_scale(size) == size

\* fft_to_rgb: size = t.shape[-3]; scale * t; irfft to (size, size)
fft_to_rgb(t) ==
    LET size == t.shape[Len(t.shape) - 2]
    IN  [shape |-> RgbShape(size), val |-> get_fft_scale(size) * t.val]

\* rgb_to_fft: size = t.shape[-1]; rfft; t / scale
rgb_to_fft(t) ==
    LET size == Last(t.shape)
    IN  [shape |-> FftShape(size), val |-> t.val \div get_fft_scale(size)]

(* ----------------------------- colour space ---------------------------- *)
lucid_colorspace_to_rgb(t) == [t EXCEPT !.val = ColorGain * t.val]
rgb_to_lucid_colorspace(t) == [t EXCEPT !.val = t.val \div ColorGain]

denormalize(x) == [x EXCEPT !.val = x.val * ImagenetStd + ImagenetMean]
normalize(x) == [x EXCEPT !.val = (x.val - ImagenetMean) \div ImagenetStd]

clamp(v) == IF v > ClampMax THEN ClampMax ELSE IF v < ClampMin THEN ClampMin ELSE v

\* image_buf_to_rgb: works on img_buf.detach(); returns img[0], shape (3, size, size)
image_buf_to_rgb(buf) ==
    LET img == denormalize(lucid_colorspace_to_rgb(fft_to_rgb(buf)))
    IN  [shape |-> Tail(img.shape), val |-> clamp(img.val)]

\* torch.sigmoid(img)*2 - 1, a squashing to [-1, 1]
sigmoid2(img) == [img EXCEPT !.val = Sign(img.val)]

(* --------------------------- lucid_transforms -------------------------- *)
\* Tensor.squeeze(): every dimension of extent 1 is dropped
squeeze(shape) == SelectSeq(shape, LAMBDA d : d # 1)

\* gpu_affine_grid: size = (1,) + size; N, C, H, W = size needs four entries
gpu_affine_grid_ok(shape) == Len(<<1>> \o shape) = 4

\* jitter defaults to size // 2
JitterOf(jitter, size) == IF IsNone(jitter) THEN size \div 2 ELSE Val(jitter)

\* vision.transform.pad()(image, jitter): jitter pixels on every side
pad(shape, p) == <<shape[1], shape[2] + 2 * p, shape[3] + 2 * p>>

\* the first crop's target: size + int(jitter * (2/3))
JitterCrop(size, j) == size + ((2 * j) \div 3)

\* vision.transform.crop_pad()(image, target, ...): a target x target window
\* (a smaller image is padded up to the target first)
crop_pad(shape, target) == <<shape[1], target, target>>

\* the crop window's first row or column: int((extent - target + 1) * pct),
\* pct = d/2 for the draw d
CropOffset(extent, target, d) ==
    IF extent < target THEN 0 ELSE ((extent - target + 1) * d) \div 2

\* zoom and rotate resample on a grid of the image's own shape
zoom(shape, pct) == shape
rotate(shape, deg) == shape

\* scale_factors[int(rand * 11)], in percent, for scale = .5
RandScale(d) == 50 + 10 * ((d * 11) \div 2)

\* rotate_factors[int(rand * len)], for degrees = 45:
\* list(range(-45, 46)) + 22 * [0]
RandRotate(d) ==
    LET idx == (d * (91 + 22)) \div 2
    IN  IF idx <= 90 THEN idx - 45 ELSE 0

\* lucid_transforms(img, jitter) with the six draws d it consumes
lucid_transforms(t, jitter, d) ==
    LET size == Last(t.shape)
        j == JitterOf(jitter, size)
        s0 == squeeze(t.shape)
    IN  IF ~gpu_affine_grid_ok(s0)
        THEN [ok |-> FALSE, shape |-> s0, val |-> t.val, sides |-> <<>>]
        ELSE LET s1 == pad(s0, j)
                 s2 == crop_pad(s1, JitterCrop(size, j))
                 s3 == zoom(s2, RandScale(d[3]))
                 s4 == rotate(s3, RandRotate(d[4]))
                 s5 == crop_pad(s4, size)
                 v == ((t.val * RandScale(d[3])) \div 50) + Sign(RandRotate(d[4]))
                      + CropOffset(s1[2], s2[2], d[1]) + CropOffset(s1[3], s2[3], d[2])
                      + CropOffset(s4[2], s5[2], d[5]) + CropOffset(s4[3], s5[3], d[6])
             IN  [ok |-> TRUE, shape |-> <<1>> \o s5, val |-> v,
                  sides |-> <<s0[3], s1[3], s2[3], s3[3], s4[3], s5[3]>>]

(* ------------------------ model, loss, optimizer ----------------------- *)
\* the hooked layer's output for input level x: one level per channel
Act(w, x) == [c \in 1..NumCh |-> w * x + c - 1]

RECURSIVE SumSeq(_)
SumSeq(s) == IF s = <<>> THEN 0 ELSE s[1] + SumSeq(Tail(s))

\* loss = -1*(hook_out[0]**2).mean()  or  -1*hook_out[0][feature].mean()
\* src: the activation tensor the loss was computed from; dact: d loss / d act
LossOf(act, feature) ==
    IF IsNone(feature)
    THEN [src |-> act.made,
          val |-> 0 - (SumSeq([c \in 1..NumCh |-> act.val[c] * act.val[c]]) \div NumCh),
          dact |-> [c \in 1..NumCh |-> 0 - act.val[c]]]
    ELSE [src |-> act.made,
          val |-> 0 - act.val[Val(feature) + 1],
          dact |-> [c \in 1..NumCh |-> IF c = Val(feature) + 1 THEN -1 ELSE 0]]

\* loss.backward(): the gradient that reaches img_buf
Backprop(l, w, size) == SumSeq(l.dact) * w * ColorGain * get_fft_scale(size)

\* torch.nn.utils.clip_grad_norm_(img_buf, grad_clip)
clip_grad_norm(g) == IF Abs(g) > GradClip THEN Sign(g) * GradClip ELSE g

OptParams_Model == {"img_buf", "weights"}

\* the parameters the optimizer is built over: AdamW([img_buf], ...)
OptParams == {"img_buf"}

\* AdamW: decoupled weight decay p * lr * weight_decay (0.004 * 0.1), then a
\* step of size lr along the running average of the gradient
AdamW(p, g, st) ==
    LET m == st.exp_avg + g
        decay == Sign(p) * ((Abs(p) * 4) \div 10000)
    IN  [p |-> p - decay - Sign(m), st |-> [step |-> st.step + 1, exp_avg |-> m]]

callback_first(old, o) == IF IsNone(old) THEN Some(o) ELSE old

\* the hook's callback: hook_out = o
callback(old, o) == Some(o)

FrameInterval_Frames(steps, frames) == frames

FrameInterval_Guarded(steps, frames) ==
    IF frames = 0 THEN 0 ELSE IF steps < frames THEN 1 ELSE steps \div frames

\* int(steps/frames); steps/frames raises ZeroDivisionError when frames is 0
FrameInterval(steps, frames) == IF frames = 0 THEN 0 ELSE steps \div frames

RenderDraws_One == 0 + 1

\* the draws of np.random that image_buf_to_rgb and show_rgb make: none
RenderDraws == 0

(* ------------------------------- state --------------------------------- *)
VARIABLES
    pc,          \* position in visualize_feature: idle, the stages, done, failed
    args,        \* the arguments of the call in progress
    i,           \* the loop variable
    img_buf,     \* the image buffer being optimized
    grad,        \* img_buf.grad
    opt,         \* the optimizer: its parameter list and its state
    hook_out,    \* the activation the callback captured
    hook,        \* the handle register_forward_hook returned
    img,         \* the local img
    loss,        \* the local loss
    layer_hooks, \* the forward hooks registered on layer
    next_id,     \* the id the next hook handle gets
    weights,     \* the model's weights
    rng,         \* the state of np.random
    shown,       \* the images displayed by this call, in order
    retval,      \* what the call returned
    error,       \* the exception that ended the call
    calls,       \* calls made so far
    trace,       \* the stages the current iteration has performed
    entry,       \* the layer's hooks, the buffer and np.random when the loop was entered
    lt           \* the image's side after each stage of the last lucid_transforms

vars == <<pc, args, i, img_buf, grad, opt, hook_out, hook, img, loss, layer_hooks,
          next_id, weights, rng, shown, retval, error, calls, trace, entry, lt>>

NoTensor == [shape |-> <<>>, val |-> 0]

Options(S) == {None} \cup {Some(x) : x \in S}

\* the arguments a call is made with: any steps, frames, debug, show, feature,
\* start image and layer, with one size and the default jitter
Args ==
    [steps : 0..MaxSteps, frames : 0..MaxFrames, debug : BOOLEAN, show : BOOLEAN,
     feature : Options(0..(NumCh - 1)), size : {CallSize},
     jitter : {None}, start_image : Options({ClampMax}),
     layer_in_model : BOOLEAN]

\* the arguments that exercise lucid_transforms: any size and jitter
ArgsLT ==
    [steps : 0..1, frames : {1}, debug : BOOLEAN, show : {FALSE},
     feature : {None}, size : 1..MaxSize,
     jitter : Options(0..MaxJitter), start_image : {None},
     layer_in_model : {TRUE}]

LoopStages ==
    {"zero_grad", "reparam", "augment", "forward", "loss", "backward", "clip", "step",
     "debug"}

StageAfter_StepFirst(stage) ==
    CASE stage = "zero_grad" -> "reparam"
      [] stage = "reparam" -> "augment"
      [] stage = "augment" -> "forward"
      [] stage = "forward" -> "loss"
      [] stage = "loss" -> "backward"
      [] stage = "backward" -> "step"
      [] stage = "step" -> "clip"
      [] stage = "clip" -> "debug"
      [] stage = "debug" -> "loop"

\* the statement that follows each statement of the loop body
StageAfter(stage) ==
    CASE stage = "zero_grad" -> "reparam"
      [] stage = "reparam" -> "augment"
      [] stage = "augment" -> "forward"
      [] stage = "forward" -> "loss"
      [] stage = "loss" -> "backward"
      [] stage = "backward" -> "clip"
      [] stage = "clip" -> "step"
      [] stage = "step" -> "debug"
      [] stage = "debug" -> "loop"

\* the locals of visualize_feature while no call is in progress
NoArgs ==
    [steps |-> 0, frames |-> 0, debug |-> FALSE, show |-> FALSE, feature |-> None,
     size |-> 1, jitter |-> None, start_image |-> None, layer_in_model |-> FALSE]
NoOpt == [params |-> {}, step |-> 0, exp_avg |-> 0]
NoEntry == [hooks |-> {}, buf |-> NoTensor, rng |-> 0]

Init ==
    /\ pc = "idle"
    /\ args = NoArgs
    /\ i = 0
    /\ img_buf = NoTensor
    /\ grad = None
    /\ opt = NoOpt
    /\ hook_out = None
    /\ hook = None
    /\ img = NoTensor
    /\ loss = None
    /\ layer_hooks = {}
    /\ next_id = 0
    /\ weights = 2
    /\ rng = 0
    /\ shown = <<>>
    /\ retval = None
    /\ error = None
    /\ calls = 0
    /\ trace = <<>>
    /\ entry = NoEntry
    /\ lt = <<>>

Raise_Cleanup(kind) ==
    /\ pc' = "failed"
    /\ error' = Some([stage |-> pc, kind |-> kind])
    /\ layer_hooks' = layer_hooks \ {Val(hook)}
    /\ UNCHANGED <<args, i, img_buf, grad, opt, hook_out, hook, img, loss,
                   next_id, weights, rng, shown, retval, calls, trace, entry, lt>>

\* an exception leaves visualize_feature: nothing catches it
Raise(kind) ==
    /\ pc' = "failed"
    /\ error' = Some([stage |-> pc, kind |-> kind])
    /\ UNCHANGED <<args, i, img_buf, grad, opt, hook_out, hook, img, loss, layer_hooks,
                   next_id, weights, rng, shown, retval, calls, trace, entry, lt>>

\* the stage at pc is done
Advance == pc' = StageAfter(pc) /\ trace' = Append(trace, pc)

\* the initial buffer: from start_image, or random
InitialBuf(a, s) ==
    IF IsNone(a.start_image)
    THEN init_fft_buf(a.size, s)
    ELSE rgb_to_fft(rgb_to_lucid_colorspace(normalize(
             [shape |-> RgbShape(a.size), val |-> Val(a.start_image)])))

\* visualize_feature is called: the buffer, the optimizer and the hook are set up
Call(a) ==
    /\ pc = "idle"
    /\ calls < MaxCalls
    /\ args' = a
    /\ img_buf' = InitialBuf(a, rng)
    /\ rng' = IF IsNone(a.start_image) THEN NextRng(rng) ELSE rng
    /\ grad' = None
    /\ opt' = [params |-> OptParams, step |-> 0, exp_avg |-> 0]
    /\ hook_out' = None
    /\ hook' = Some(next_id)
    /\ layer_hooks' = layer_hooks \cup {next_id}
    /\ next_id' = next_id + 1
    /\ i' = 0
    /\ img' = NoTensor
    /\ loss' = None
    /\ shown' = <<>>
    /\ retval' = None
    /\ error' = None
    /\ calls' = calls + 1
    /\ trace' = <<>>
    /\ entry' = [hooks |-> layer_hooks, buf |-> img_buf', rng |-> rng']
    /\ lt' = <<>>
    /\ pc' = "loop"
    /\ UNCHANGED weights

\* for i in range(1, steps+1)
LoopNext ==
    /\ pc = "loop"
    /\ IF i < args.steps
       THEN i' = i + 1 /\ pc' = "zero_grad" /\ trace' = <<>>
       ELSE pc' = "hook_remove" /\ UNCHANGED <<i, trace>>
    /\ UNCHANGED <<args, img_buf, grad, opt, hook_out, hook, img, loss, layer_hooks,
                   next_id, weights, rng, shown, retval, error, calls, entry, lt>>

\* opt.zero_grad(): a gradient that exists is zeroed
ZeroGrad ==
    /\ pc = "zero_grad"
    /\ grad' = IF IsNone(grad) THEN None ELSE Some(0)
    /\ Advance
    /\ UNCHANGED <<args, i, img_buf, opt, hook_out, hook, img, loss, layer_hooks,
                   next_id, weights, rng, shown, retval, error, calls, entry, lt>>

\* img = fft_to_rgb(img_buf); lucid_colorspace_to_rgb; sigmoid*2 - 1
Reparam ==
    /\ pc = "reparam"
    /\ img' = sigmoid2(lucid_colorspace_to_rgb(fft_to_rgb(img_buf)))
    /\ Advance
    /\ UNCHANGED <<args, i, img_buf, grad, opt, hook_out, hook, loss, layer_hooks,
                   next_id, weights, rng, shown, retval, error, calls, entry, lt>>

\* img = lucid_transforms(img, **kwargs): six draws of np.random
Augment ==
    /\ pc = "augment"
    /\ LET r == lucid_transforms(img, args.jitter, Draws(rng, 6))
       IN  IF r.ok
           THEN /\ img' = [shape |-> r.shape, val |-> r.val]
                /\ rng' = RngAfter(rng, 6)
                /\ lt' = r.sides
                /\ Advance
                /\ UNCHANGED <<args, i, img_buf, grad, opt, hook_out, hook, loss,
                               layer_hooks, next_id, weights, shown, retval, error,
                               calls, entry>>
           ELSE Raise("ValueError")

\* model(img.cuda()): the layer's forward hooks run inside the forward pass
Forward ==
    /\ pc = "forward"
    /\ hook_out' = IF args.layer_in_model /\ Val(hook) \in layer_hooks
                   THEN callback(hook_out, [made |-> i, val |-> Act(weights, img.val)])
                   ELSE hook_out
    /\ Advance
    /\ UNCHANGED <<args, i, img_buf, grad, opt, hook, img, loss, layer_hooks,
                   next_id, weights, rng, shown, retval, error, calls, entry, lt>>

\* loss from hook_out[0]; None is not subscriptable
Loss ==
    /\ pc = "loss"
    /\ IF IsNone(hook_out)
       THEN Raise("TypeError")
       ELSE /\ loss' = Some(LossOf(Val(hook_out), args.feature))
            /\ Advance
            /\ UNCHANGED <<args, i, img_buf, grad, opt, hook_out, hook, img,
                           layer_hooks, next_id, weights, rng, shown, retval, error,
                           calls, entry, lt>>

\* loss.backward(): the gradient is added to img_buf.grad
Backward ==
    /\ pc = "backward"
    /\ LET g == Backprop(Val(loss), weights, args.size)
       IN  grad' = IF IsNone(grad) THEN Some(g) ELSE Some(Val(grad) + g)
    /\ Advance
    /\ UNCHANGED <<args, i, img_buf, opt, hook_out, hook, img, loss, layer_hooks,
                   next_id, weights, rng, shown, retval, error, calls, entry, lt>>

\* torch.nn.utils.clip_grad_norm_(img_buf, grad_clip)
Clip ==
    /\ pc = "clip"
    /\ grad' = Some(clip_grad_norm(Val(grad)))
    /\ Advance
    /\ UNCHANGED <<args, i, img_buf, opt, hook_out, hook, img, loss, layer_hooks,
                   next_id, weights, rng, shown, retval, error, calls, entry, lt>>

\* opt.step(): every parameter of the optimizer's list is updated
Step ==
    /\ pc = "step"
    /\ LET r == AdamW(img_buf.val, Val(grad), [step |-> opt.step, exp_avg |-> opt.exp_avg])
       IN  /\ opt' = [opt EXCEPT !.step = r.st.step, !.exp_avg = r.st.exp_avg]
           /\ img_buf' = IF "img_buf" \in opt.params
                          THEN [img_buf EXCEPT !.val = r.p]
                          ELSE img_buf
           /\ weights' = IF "weights" \in opt.params
                          THEN weights - Sign(r.st.exp_avg)
                          ELSE weights
    /\ Advance
    /\ UNCHANGED <<args, i, grad, hook_out, hook, img, loss, layer_hooks, next_id,
                   rng, shown, retval, error, calls, entry, lt>>

\* show_rgb(image_buf_to_rgb(img_buf), label): one image on the display
Display(kind) ==
    Append(shown, [kind |-> kind, i |-> i, img |-> image_buf_to_rgb(img_buf),
                   step |-> opt.step])

\* if debug and i % int(steps/frames) == 0: show the frame
DebugFrame ==
    /\ pc = "debug"
    /\ IF ~args.debug
       THEN /\ Advance
            /\ UNCHANGED <<args, i, img_buf, grad, opt, hook_out, hook, img, loss,
                           layer_hooks, next_id, weights, rng, shown, retval, error,
                           calls, entry, lt>>
       ELSE IF FrameInterval(args.steps, args.frames) = 0
       THEN Raise("ZeroDivisionError")
       ELSE /\ IF i % FrameInterval(args.steps, args.frames) = 0
               THEN shown' = Display("frame") /\ rng' = RngAfter(rng, RenderDraws)
               ELSE UNCHANGED <<shown, rng>>
            /\ Advance
            /\ UNCHANGED <<args, i, img_buf, grad, opt, hook_out, hook, img, loss,
                           layer_hooks, next_id, weights, retval, error, calls,
                           entry, lt>>

HookRemove_Skip ==
    /\ pc = "hook_remove"
    /\ pc' = "finish"
    /\ UNCHANGED <<args, i, img_buf, grad, opt, hook_out, hook, img, loss, layer_hooks,
                   next_id, weights, rng, shown, retval, error, calls, trace, entry, lt>>

\* hook.remove()
HookRemove ==
    /\ pc = "hook_remove"
    /\ layer_hooks' = layer_hooks \ {Val(hook)}
    /\ pc' = "finish"
    /\ UNCHANGED <<args, i, img_buf, grad, opt, hook_out, hook, img, loss, next_id,
                   weights, rng, shown, retval, error, calls, trace, entry, lt>>

Finish_ShowAlways ==
    /\ pc = "finish"
    /\ IF args.show
       THEN /\ shown' = Display("final")
            /\ retval' = None
       ELSE /\ retval' = Some(image_buf_to_rgb(img_buf))
            /\ shown' = shown
    /\ rng' = RngAfter(rng, RenderDraws)
    /\ pc' = "done"
    /\ UNCHANGED <<args, i, img_buf, grad, opt, hook_out, hook, img, loss, layer_hooks,
                   next_id, weights, error, calls, trace, entry, lt>>

\* retval = image_buf_to_rgb(img_buf); shown (unless debug) or returned
Finish ==
    /\ pc = "finish"
    /\ IF args.show
       THEN /\ shown' = IF ~args.debug THEN Display("final") ELSE shown
            /\ retval' = None
       ELSE /\ retval' = Some(image_buf_to_rgb(img_buf))
            /\ shown' = shown
    /\ rng' = RngAfter(rng, RenderDraws)
    /\ pc' = "done"
    /\ UNCHANGED <<args, i, img_buf, grad, opt, hook_out, hook, img, loss, layer_hooks,
                   next_id, weights, error, calls, trace, entry, lt>>

\* a wrapped library raises in a stage of the loop body
Fault ==
    /\ pc \in LoopStages
    /\ Raise("LibraryError")

\* control is back with the caller: the call's locals are gone; the layer, the
\* model, np.random and what was displayed or returned are the caller's
Leave ==
    /\ pc \in {"done", "failed"}
    /\ pc' = "idle"
    /\ args' = NoArgs
    /\ i' = 0
    /\ img_buf' = NoTensor
    /\ grad' = None
    /\ opt' = NoOpt
    /\ hook_out' = None
    /\ hook' = None
    /\ img' = NoTensor
    /\ loss' = None
    /\ shown' = <<>>
    /\ retval' = None
    /\ error' = None
    /\ trace' = <<>>
    /\ entry' = NoEntry
    /\ lt' = <<>>
    /\ UNCHANGED <<layer_hooks, next_id, weights, rng, calls>>

\* every statement of visualize_feature after its set-up
Body ==
    \/ LoopNext
    \/ ZeroGrad
    \/ Reparam
    \/ Augment
    \/ Forward
    \/ Loss
    \/ Backward
    \/ Clip
    \/ Step
    \/ DebugFrame
    \/ HookRemove
    \/ Finish
    \/ Fault
    \/ Leave

Next == (\E a \in Args : Call(a)) \/ Body

Spec == Init /\ [][Next]_vars

NextLT == (\E a \in ArgsLT : Call(a)) \/ Body

SpecLT == Init /\ [][NextLT]_vars

(* ------------------------------ properties ----------------------------- *)
Running == pc \in ({"loop", "hook_remove", "finish"} \cup LoopStages)
InCall == pc # "idle"

Frames == SelectSeq(shown, LAMBDA e : e.kind = "frame")
Finals == SelectSeq(shown, LAMBDA e : e.kind = "final")

\* C1: on normal completion, with show=False the final image
\* image_buf_to_rgb(img_buf) is returned and no final display happens; with
\* show=True nothing is returned and the final image is displayed exactly once,
\* after every frame, if and only if debug is False.
C1_Result ==
    pc = "done" =>
        LET final == image_buf_to_rgb(img_buf)
        IN  IF args.show
            THEN /\ retval = None
                 /\ IF args.debug
                    THEN Finals = <<>>
                    ELSE /\ Len(Finals) = 1
                         /\ Last(shown).kind = "final"
                         /\ Last(shown).img = final
            ELSE /\ retval = Some(final)
                 /\ Finals = <<>>

C1_Witness ==
    /\ pc = "done"
    /\ args.show /\ ~args.debug /\ args.steps = 2
    /\ Len(Finals) = 1
    /\ img_buf # entry.buf

\* C2: the optimizer is built over img_buf alone; no step of the program changes
\* the model's weights, and opt.step changes the buffer and the optimizer's own
\* state only.
C2_Frame ==
    [][/\ weights' = weights
       /\ (InCall => opt.params = {"img_buf"})
       /\ (pc = "step" /\ pc' # "failed" =>
               /\ opt'.step = opt.step + 1
               /\ UNCHANGED <<args, i, grad, hook_out, hook, img, loss, layer_hooks,
                              next_id, weights, rng, shown, retval, error>>)]_vars

C2_Witness ==
    /\ pc = "done"
    /\ opt.step = 3
    /\ img_buf # entry.buf

\* one iteration as a function of the buffer, the optimizer's state and
\* np.random alone
IterOnce(feature, size, jitter, w, r) ==
    LET x == sigmoid2(lucid_colorspace_to_rgb(fft_to_rgb(r.buf)))
        t == lucid_transforms(x, jitter, Draws(r.rng, 6))
        l == LossOf([made |-> 0, val |-> Act(w, t.val)], feature)
        u == AdamW(r.buf.val, clip_grad_norm(Backprop(l, w, size)), r.st)
    IN  [buf |-> [r.buf EXCEPT !.val = u.p], st |-> u.st, rng |-> RngAfter(r.rng, 6)]

RECURSIVE RunOf(_, _, _, _, _, _)
RunOf(feature, size, jitter, w, r, n) ==
    IF n = 0 THEN r
    ELSE IterOnce(feature, size, jitter, w, RunOf(feature, size, jitter, w, r, n - 1))

\* C3: the buffer and the final image a completed call ends with are a function
\* of the model, the feature, the initial buffer, the hyperparameters and the
\* random draws: debug, frames and show do not enter it, and the displays
\* consume no draw.
C3_Deterministic ==
    pc = "done" =>
        LET r == RunOf(args.feature, args.size, args.jitter, weights,
                       [buf |-> entry.buf, st |-> [step |-> 0, exp_avg |-> 0],
                        rng |-> entry.rng], args.steps)
        IN  /\ img_buf = r.buf
            /\ rng = r.rng
            /\ (~args.show => retval = Some(image_buf_to_rgb(r.buf)))
            /\ (Finals # <<>> => Finals[1].img = image_buf_to_rgb(r.buf))

C3_Witness ==
    /\ pc = "done"
    /\ args.debug /\ args.steps = 3 /\ args.frames = 2
    /\ Len(Frames) = 3
    /\ img_buf # entry.buf

\* C4: a failure in a stage of iteration i ends the call there: the exception
\* names that stage, i stays, nothing is returned or finally displayed, the
\* hook is still registered on the layer, and the only step left is the
\* caller's, which leaves the hook on the layer.
C4_Failure ==
    [][/\ (pc' = "failed" =>
               /\ pc \in LoopStages
               /\ Val(error').stage = pc
               /\ i' = i /\ i >= 1
               /\ img_buf' = img_buf /\ opt' = opt
               /\ retval' = None
               /\ SelectSeq(shown', LAMBDA e : e.kind = "final") = <<>>
               /\ layer_hooks' = layer_hooks
               /\ Val(hook') \in layer_hooks')
       /\ (pc = "failed" =>
               /\ pc' = "idle"
               /\ layer_hooks' = layer_hooks
               /\ Val(hook) \in layer_hooks')]_vars

C4_Witness ==
    /\ pc = "failed"
    /\ i = 2 /\ args.steps = 3
    /\ Val(error).stage = "backward"
    /\ layer_hooks = {0, 1}

\* the order of the statements of the loop body
StageOrder ==
    <<"zero_grad", "reparam", "augment", "forward", "loss", "backward", "clip", "step",
      "debug">>

StageIdx(p) ==
    CASE p = "zero_grad" -> 1
      [] p = "reparam" -> 2
      [] p = "augment" -> 3
      [] p = "forward" -> 4
      [] p = "loss" -> 5
      [] p = "backward" -> 6
      [] p = "clip" -> 7
      [] p = "step" -> 8
      [] p = "debug" -> 9
      [] p = "loop" -> 10
      [] p = "hook_remove" -> 11
      [] p = "finish" -> 12
      [] OTHER -> 13

\* how far the call has come: the iteration, then the statement in it
Measure == 10 * i + StageIdx(pc)

\* a statement of visualize_feature executes
Proceed ==
    \/ LoopNext \/ ZeroGrad \/ Reparam \/ Augment \/ Forward \/ Loss \/ Backward
    \/ Clip \/ Step \/ DebugFrame \/ HookRemove \/ Finish

C5_State ==
    /\ (pc = "done" =>
            /\ i = args.steps
            /\ opt.step = args.steps
            /\ (args.steps = 0 =>
                    /\ img_buf = entry.buf
                    /\ (~args.show => retval = Some(image_buf_to_rgb(entry.buf)))))
    /\ (pc \in LoopStages => trace = SubSeq(StageOrder, 1, StageIdx(pc) - 1))
    /\ (pc = "loop" /\ i > 0 => trace = StageOrder)
    /\ (pc = "clip" => grad = Some(Backprop(Val(loss), weights, args.size)))
    /\ (pc = "step" =>
            grad = Some(clip_grad_norm(Backprop(Val(loss), weights, args.size))))
    /\ (Running =>
            opt.step = IF pc \in (LoopStages \ {"debug"}) THEN i - 1 ELSE i)

\* C5: absent failures a call runs exactly `steps` iterations and ends (every
\* statement moves the call forward, the loop variable never passes steps, and a
\* running call can always take its next statement); with steps = 0 the result
\* is the rendering of the initial buffer; every iteration performs zero_grad,
\* reparameterization, augmentation, forward, loss, backward, clip, step in
\* this order, once each; the gradient that is clipped is this iteration's
\* alone and the step uses the clipped gradient.
C5_Loop ==
    [][/\ C5_State
       /\ C5_State'
       /\ (Running => ENABLED Proceed)
       /\ (Running /\ pc' # "failed" =>
               /\ Measure' > Measure
               /\ i' <= args.steps
               /\ i' \in {i, i + 1})]_vars

C5_Witness ==
    /\ pc = "step"
    /\ i = 3
    /\ Val(grad) # Backprop(Val(loss), weights, args.size)
    /\ opt.exp_avg # 0

\* C6: a call registers exactly one hook on the layer, a new one, before the
\* first iteration and keeps exactly it there as long as the loop runs; it is
\* removed after the last iteration, before the final image is rendered, so a
\* completed call leaves the layer's hooks as it found them.
C6_Hook ==
    /\ (pc \in ({"loop", "hook_remove"} \cup LoopStages) =>
            /\ Val(hook) \notin entry.hooks
            /\ layer_hooks = entry.hooks \cup {Val(hook)})
    /\ (pc \in {"finish", "done"} =>
            /\ layer_hooks = entry.hooks
            /\ Val(hook) \notin layer_hooks)
    /\ (pc = "finish" => retval = None /\ Finals = <<>>)

C6_Witness ==
    /\ pc = "done"
    /\ calls = 2
    /\ Val(hook) = 1
    /\ args.steps = 2
    /\ layer_hooks = {}

\* the stage the call is in or failed in
StageNow == IF pc = "failed" THEN Val(error).stage ELSE pc

\* the forward pass of iteration 1 is over
FirstForwardDone == i >= 2 \/ (i = 1 /\ StageIdx(StageNow) > StageIdx("forward"))

\* C7: when the model's forward pass invokes the layer, the loss of an iteration
\* is computed from the activation the callback captured in that iteration's
\* forward pass, and hook_out is None only before the first forward pass.
C7_Fresh ==
    InCall /\ args.layer_in_model =>
        /\ (pc \in {"loss", "backward", "clip", "step", "debug"} =>
                /\ Val(hook_out).made = i
                /\ Val(hook_out).val = Act(weights, img.val))
        /\ (pc \in {"backward", "clip", "step", "debug"} =>
                /\ Val(loss).src = i
                /\ Val(loss) = LossOf(Val(hook_out), args.feature))
        /\ (IsNone(hook_out) <=> ~FirstForwardDone)

C7_Witness ==
    /\ pc = "backward"
    /\ i = 3
    /\ args.layer_in_model
    /\ Val(loss).src = 3

\* the iterations whose debug check is over
ChecksDone == IF pc \in {"loop", "hook_remove", "finish", "done"} THEN i ELSE i - 1

\* the multiples of k in 1..n, ascending
RECURSIVE MultiplesUpTo(_, _)
MultiplesUpTo(k, n) ==
    IF n <= 0 THEN <<>>
    ELSE IF n % k = 0 THEN Append(MultiplesUpTo(k, n - 1), n)
    ELSE MultiplesUpTo(k, n - 1)

\* C8: with debug and 1 <= frames <= steps an intermediate frame is displayed
\* at exactly the iterations in 1..steps that are multiples of
\* floor(steps/frames), each after that iteration's optimizer step, so a
\* completed run shows at least `frames` frames, and exactly `frames` when
\* frames divides steps; without debug no intermediate frame is displayed.
C8_Frames ==
    InCall =>
        /\ (~args.debug => Frames = <<>>)
        /\ (args.debug /\ 1 <= args.frames /\ args.frames <= args.steps =>
                LET due == MultiplesUpTo(args.steps \div args.frames, ChecksDone)
                IN  /\ Len(Frames) = Len(due)
                    /\ \A k \in 1..Len(due) :
                           /\ Frames[k].i = due[k]
                           /\ Frames[k].step = due[k]
                    /\ (pc = "done" =>
                            /\ Len(Frames) >= args.frames
                            /\ (args.steps % args.frames = 0 =>
                                    Len(Frames) = args.frames)))

C8_Witness ==
    /\ pc = "done"
    /\ args.debug /\ args.steps = 3 /\ args.frames = 2
    /\ Len(Frames) = 3

\* C9: with debug and 1 <= steps < frames the call fails with a division by
\* zero at the debug check of iteration 1, after that iteration's optimizer step
\* was applied to the buffer and before any frame is displayed, so it never
\* completes; without debug the same steps and frames raise no division by
\* zero: the debug check passes on to the next iteration.
C9_ZeroInterval ==
    [][1 <= args.steps /\ args.steps < args.frames =>
          IF args.debug
          THEN /\ pc' \notin {"hook_remove", "finish", "done"}
               /\ (pc = "debug" =>
                       /\ pc' = "failed"
                       /\ i = 1
                       /\ opt.step = 1
                       /\ img_buf.val = AdamW(entry.buf.val, Val(grad),
                                               [step |-> 0, exp_avg |-> 0]).p
                       /\ shown' = <<>>)
               /\ (pc' = "failed" /\ Val(error').kind = "ZeroDivisionError" =>
                       pc = "debug" /\ i = 1)
          ELSE /\ (pc' = "failed" => Val(error').kind # "ZeroDivisionError")
               /\ (pc = "debug" /\ pc' # "failed" => pc' = "loop" /\ shown' = shown)
      ]_vars

C9_Witness ==
    /\ pc = "failed"
    /\ Val(error).kind = "ZeroDivisionError"
    /\ args.steps = 1 /\ args.frames = 2
    /\ opt.step = 1
    /\ img_buf # entry.buf
    /\ shown = <<>>

\* C10: lucid_transforms preserves the spatial size of its input: for every
\* size >= 1 and jitter >= 0 it does not fail, the image's side goes from size to
\* size + 2*jitter, to size + floor(2*jitter/3), stays through zoom and rotate,
\* and ends at size; no crop target exceeds the image it is taken from, and the
\* result has shape (1, 3, size, size).
C10_SizePreserved ==
    LET j == JitterOf(args.jitter, args.size)
    IN  /\ (pc = "failed" /\ Val(error).stage = "augment" =>
                Val(error).kind = "LibraryError")
        /\ (pc = "forward" =>
                /\ img.shape = <<1, 3, args.size, args.size>>
                /\ lt = <<args.size, args.size + 2 * j, args.size + ((2 * j) \div 3),
                          args.size + ((2 * j) \div 3), args.size + ((2 * j) \div 3),
                          args.size>>
                /\ lt[3] <= lt[2]
                /\ lt[6] <= lt[5])

====
